---- MODULE Spec2Model ----
(***************************************************************************)
(* Model of the AI Patent Explorer API (PatentController and the tables it *)
(* reads and writes): ingest, claim segmentation by the ingest worker,     *)
(* compare and novelty.                                                    *)
(*                                                                         *)
(* Scores are kept in hundredths (0.8 is 80, 1 is 100) so that the         *)
(* arithmetic of the controller is integer arithmetic.  Dates are days     *)
(* numbered 1..MaxDate.  Patent ids are the database's generated keys; the *)
(* n-th saved patent gets id n.                                            *)
(***************************************************************************)
EXTENDS Integers, Sequences, FiniteSets, TLC

\* ---------------------------------------------------------------- bounds
MaxPatents == 2
MaxDate == 2
MaxClauses == 3
MaxRefs == 2
MaxLongRefs == 10
MaxAudit == 3
NumIds == 2
MaxClaimNum == 1
MaxSlack == 2
MaxWeightSum == 2
MaxK == 2
MaxExport == 2
MaxBulk == 12
MaxRows == 7

Users == {"u1"}
Workspaces == {"w1", "w2"}

PatentIds == 1..MaxPatents
ClaimNums == 1..MaxClaimNum
Dates == 1..MaxDate
GeneratedIds == 1..NumIds

VARIABLES
  patents,     \* table patents: sequence of rows, row i has id i
  clauses,     \* table clauses: <<patent_id, claim_num>> -> number of clause rows
  events,      \* what the publish*Event methods have published, in order
  auditLog,    \* table audit_log, in insertion order
  last,        \* the most recent request: handler and HTTP status
  comparison,  \* body of the most recent successful POST /patents/compare
  novelty,     \* body of the most recent successful POST /patents/novelty
  selectedPatent, \* frontend (Home): the selected patent id, 0 when none
  searchSessions, \* table search_sessions, in insertion order
  search,      \* body of the most recent successful POST /patents/search
  chart,       \* body of the most recent successful POST /patents/charts/claim
  bundle,      \* body of the most recent successful POST /patents/exports/bundle
  exportRequest, \* body of the most recent POST /patents/exports/bundle request
  query,       \* frontend (PatentSearch): the text of the query input
  searchParams, \* frontend (PatentSearch): the parameters the search query uses
  localStorage, \* browser: the stored auth_token and workspace_id ("" when absent)
  location,    \* browser: window.location.href
  sent,        \* API client: the headers of the most recent request sent
  db,          \* the rows of the schema's tables
  schema,      \* the objects (tables, indexes, constraints, ...) of the database schema
  migration    \* InitialSchema1700000000000: the method running and its next statement

\* What the search, chart and export handlers write.
rest == <<searchSessions, search, chart, bundle, exportRequest>>

\* The frontend's and the browser's state, and the database below the
\* repositories; no controller handler touches them.
aux == <<query, searchParams, localStorage, location, sent, db, schema, migration>>

vars == <<patents, clauses, events, auditLog, last, comparison, novelty,
          selectedPatent, searchSessions, search, chart, bundle, exportRequest,
          query, searchParams, localStorage, location, sent, db, schema, migration>>

NoResponse == [status |-> "none"]

\* No request sent yet.
NoRequest == [sent |-> FALSE, pending |-> FALSE, status |-> 0]

\* The tables of the schema that hold the patent data, without rows.
EmptyDb ==
  [workspaces |-> {}, patents |-> {}, claims |-> {}, clauses |-> {},
   passages |-> {}, alignments |-> {}, novelty_scores |-> {}]

\* A handler may write while the audit log has room: MaxAudit entries, on
\* top of the ingest entries of a patents table larger than MaxPatents.
AuditRoom ==
  Len(auditLog) < MaxAudit + (IF Len(patents) > MaxPatents THEN Len(patents) ELSE 0)

\* A request that carries no thresholds or weights.
NoConfig == [configured |-> FALSE]

\* The most recent request as an observer sees it: the handler, the HTTP
\* status of its response, the authenticated user, the workspace the handler
\* worked on and the thresholds and weights the body carried.
Served(op, status, user_id, workspace_id, config) ==
  [op |-> op, status |-> status, user_id |-> user_id,
   workspace_id |-> workspace_id, config |-> config]

\* ---------------------------------------------------------------- helpers

\* Sequences over S of length at most n.
SeqsUpTo(S, n) == UNION {[1..k -> S] : k \in 0..n}

\* Reference lists of every length up to MaxLongRefs.
LongRefLists ==
  {[i \in 1..k |-> ((i - 1) % MaxPatents) + 1] : k \in 0..MaxLongRefs}

\* patentRepository.findOne({ where: { id: patent_id, workspace_id } })
findOne(patent_id, workspace_id) ==
  /\ patent_id \in 1..Len(patents)
  /\ patents[patent_id].workspace_id = workspace_id

\* TODO stub of the controller: every user has access to every workspace.
hasWorkspaceAccess(user_id, workspace_id) == TRUE

\* Mutant: the labels of the first and the later alignments swapped.
getMockAlignments_LabelsSwapped(patent_id, claim_num, refs) ==
  [i \in 1..Len(refs) |->
    [clause_index |-> i - 1,
     clause_text |-> <<"Mock clause", i, "for patent", patent_id>>,
     reference_patent_id |-> refs[i],
     reference_clause_text |-> <<"Mock reference clause", i>>,
     similarity_score |-> 80 - (i - 1) * 10,
     alignment_type |-> IF i - 1 = 0 THEN "medium_similarity"
                                     ELSE "high_similarity"]]

\* getMockAlignments: one entry per supplied reference, the clause index is
\* the position of the reference in refs (0-based).
getMockAlignments(patent_id, claim_num, refs) ==
  [i \in 1..Len(refs) |->
    [clause_index |-> i - 1,
     clause_text |-> <<"Mock clause", i, "for patent", patent_id>>,
     reference_patent_id |-> refs[i],
     reference_clause_text |-> <<"Mock reference clause", i>>,
     similarity_score |-> 80 - (i - 1) * 10,
     alignment_type |-> IF i - 1 = 0 THEN "high_similarity"
                                     ELSE "medium_similarity"]]

\* NoveltyCard.mockNovelty: what the frontend's novelty card displays.
NoveltyCard_mockNovelty ==
  [novelty_score |-> 75,
   obviousness_score |-> 25,
   confidence_band |-> "high",
   clause_details |-> <<
     [clause_index |-> 0, clause_text |-> "A method for processing data comprising:",
      novelty_score |-> 80, confidence |-> "high"],
     [clause_index |-> 1, clause_text |-> "receiving input data;",
      novelty_score |-> 60, confidence |-> "medium"],
     [clause_index |-> 2, clause_text |-> "analyzing the data;",
      novelty_score |-> 90, confidence |-> "high"] >>]

\* Mutant: a clause novelty written as 1.8 instead of 0.8.
getMockNovelty_ClauseOutOfRange(patent_id, claim_num) ==
  [novelty_score |-> 75,
   obviousness_score |-> 25,
   confidence_band |-> "high",
   clause_details |-> <<
     [clause_index |-> 0, clause_text |-> "Mock clause 1",
      novelty_score |-> 180, confidence |-> "high"],
     [clause_index |-> 1, clause_text |-> "Mock clause 2",
      novelty_score |-> 70, confidence |-> "medium"] >>]

\* Mutant: obviousness 0.35 beside novelty 0.75.
getMockNovelty_TooObvious(patent_id, claim_num) ==
  [novelty_score |-> 75,
   obviousness_score |-> 35,
   confidence_band |-> "high",
   clause_details |-> <<
     [clause_index |-> 0, clause_text |-> "Mock clause 1",
      novelty_score |-> 80, confidence |-> "high"],
     [clause_index |-> 1, clause_text |-> "Mock clause 2",
      novelty_score |-> 70, confidence |-> "medium"] >>]

\* Mutant: the band depends on how many requests were served before.
getMockNovelty_Stateful(patent_id, claim_num) ==
  [novelty_score |-> 75,
   obviousness_score |-> 25,
   confidence_band |-> IF Len(auditLog) % 2 = 0 THEN "high" ELSE "medium",
   clause_details |-> <<
     [clause_index |-> 0, clause_text |-> "Mock clause 1",
      novelty_score |-> 80, confidence |-> "high"],
     [clause_index |-> 1, clause_text |-> "Mock clause 2",
      novelty_score |-> 70, confidence |-> "medium"] >>]

\* Mutant: a claim-level novelty above every clause novelty.
getMockNovelty_AboveClauses(patent_id, claim_num) ==
  [novelty_score |-> 85,
   obviousness_score |-> 15,
   confidence_band |-> "high",
   clause_details |-> <<
     [clause_index |-> 0, clause_text |-> "Mock clause 1",
      novelty_score |-> 80, confidence |-> "high"],
     [clause_index |-> 1, clause_text |-> "Mock clause 2",
      novelty_score |-> 70, confidence |-> "medium"] >>]

\* getMockNovelty: a canned result, the same for every patent and claim.
getMockNovelty(patent_id, claim_num) ==
  [novelty_score |-> 75,
   obviousness_score |-> 25,
   confidence_band |-> "high",
   clause_details |-> <<
     [clause_index |-> 0, clause_text |-> "Mock clause 1",
      novelty_score |-> 80, confidence |-> "high"],
     [clause_index |-> 1, clause_text |-> "Mock clause 2",
      novelty_score |-> 70, confidence |-> "medium"] >>]

\* ---------------------------------------------------------------- actions

\* The controller over empty tables.
InitController ==
  /\ patents = << >>
  /\ clauses = [k \in PatentIds \X ClaimNums |-> 0]
  /\ events = << >>
  /\ auditLog = << >>
  /\ last = Served("none", 0, "", "", NoConfig)
  /\ comparison = NoResponse
  /\ novelty = NoResponse
  /\ selectedPatent = 0
  /\ searchSessions = << >>
  /\ search = NoResponse
  /\ chart = NoResponse
  /\ bundle = NoResponse
  /\ exportRequest = NoResponse

\* PatentSearch as mounted (useState initial values), nothing stored in the
\* browser, no request sent.
InitFrontend ==
  /\ query = ""
  /\ searchParams = [query |-> "", k |-> 10, search_type |-> "hybrid"]
  /\ localStorage = [auth_token |-> "", workspace_id |-> ""]
  /\ location = "/"
  /\ sent = NoRequest

\* ------------------------------------------- InitialSchema1700000000000

\* The schema is the set of the names of its objects.  A statement of up()
\* tells of the object it creates the table it is defined on (an index, a
\* constraint, a trigger) and the other objects it needs.

\* The statements of up(), in order.
up ==
  <<[verb |-> "CREATE EXTENSION IF NOT EXISTS", name |-> "vector", on |-> "", needs |-> {}],
    [verb |-> "CREATE TABLE", name |-> "orgs", on |-> "", needs |-> {"uuid-ossp"}],
    [verb |-> "CREATE TABLE", name |-> "users", on |-> "", needs |-> {"uuid-ossp"}],
    [verb |-> "CREATE TABLE", name |-> "workspaces", on |-> "", needs |-> {"uuid-ossp"}],
    [verb |-> "CREATE TABLE", name |-> "memberships", on |-> "", needs |-> {"uuid-ossp"}],
    [verb |-> "CREATE TABLE", name |-> "patents", on |-> "", needs |-> {"uuid-ossp"}],
    [verb |-> "CREATE TABLE", name |-> "claims", on |-> "", needs |-> {"uuid-ossp", "vector"}],
    [verb |-> "CREATE TABLE", name |-> "clauses", on |-> "", needs |-> {"uuid-ossp", "vector"}],
    [verb |-> "CREATE TABLE", name |-> "passages", on |-> "", needs |-> {"uuid-ossp", "vector"}],
    [verb |-> "CREATE TABLE", name |-> "alignments", on |-> "", needs |-> {"uuid-ossp"}],
    [verb |-> "CREATE TABLE", name |-> "novelty_scores", on |-> "", needs |-> {"uuid-ossp"}],
    [verb |-> "CREATE TABLE", name |-> "search_sessions", on |-> "", needs |-> {"uuid-ossp"}],
    [verb |-> "CREATE TABLE", name |-> "claim_charts", on |-> "", needs |-> {"uuid-ossp"}],
    [verb |-> "CREATE TABLE", name |-> "citations", on |-> "", needs |-> {"uuid-ossp"}],
    [verb |-> "CREATE TABLE", name |-> "audit_log", on |-> "", needs |-> {"uuid-ossp"}],
    [verb |-> "CREATE INDEX", name |-> "IDX_workspaces_org_id", on |-> "workspaces", needs |-> {}],
    [verb |-> "CREATE INDEX", name |-> "IDX_patents_workspace_id", on |-> "patents", needs |-> {}],
    [verb |-> "CREATE INDEX", name |-> "IDX_patents_family_id", on |-> "patents", needs |-> {}],
    [verb |-> "CREATE INDEX", name |-> "IDX_claims_patent_id", on |-> "claims", needs |-> {}],
    [verb |-> "CREATE INDEX", name |-> "IDX_clauses_claim_id", on |-> "clauses", needs |-> {}],
    [verb |-> "CREATE INDEX", name |-> "IDX_passages_patent_id", on |-> "passages", needs |-> {}],
    [verb |-> "CREATE INDEX", name |-> "IDX_alignments_workspace_id", on |-> "alignments", needs |-> {}],
    [verb |-> "CREATE INDEX", name |-> "IDX_novelty_scores_workspace_id", on |-> "novelty_scores", needs |-> {}],
    [verb |-> "CREATE INDEX", name |-> "IDX_search_sessions_workspace_id", on |-> "search_sessions", needs |-> {}],
    [verb |-> "CREATE INDEX", name |-> "IDX_claim_charts_workspace_id", on |-> "claim_charts", needs |-> {}],
    [verb |-> "CREATE INDEX", name |-> "IDX_citations_from_patent_id", on |-> "citations", needs |-> {}],
    [verb |-> "CREATE INDEX", name |-> "IDX_citations_to_patent_id", on |-> "citations", needs |-> {}],
    [verb |-> "CREATE INDEX", name |-> "IDX_audit_log_workspace_id", on |-> "audit_log", needs |-> {}],
    [verb |-> "CREATE INDEX", name |-> "IDX_audit_log_created_at", on |-> "audit_log", needs |-> {}],
    [verb |-> "CREATE INDEX", name |-> "IDX_claims_embedding", on |-> "claims", needs |-> {"vector"}],
    [verb |-> "CREATE INDEX", name |-> "IDX_clauses_embedding", on |-> "clauses", needs |-> {"vector"}],
    [verb |-> "CREATE INDEX", name |-> "IDX_passages_embedding", on |-> "passages", needs |-> {"vector"}],
    [verb |-> "ADD CONSTRAINT", name |-> "FK_workspaces_org", on |-> "workspaces", needs |-> {"orgs"}],
    [verb |-> "ADD CONSTRAINT", name |-> "FK_memberships_user", on |-> "memberships", needs |-> {"users"}],
    [verb |-> "ADD CONSTRAINT", name |-> "FK_memberships_workspace", on |-> "memberships", needs |-> {"workspaces"}],
    [verb |-> "ADD CONSTRAINT", name |-> "FK_patents_workspace", on |-> "patents", needs |-> {"workspaces"}],
    [verb |-> "ADD CONSTRAINT", name |-> "FK_claims_patent", on |-> "claims", needs |-> {"patents"}],
    [verb |-> "ADD CONSTRAINT", name |-> "FK_clauses_claim", on |-> "clauses", needs |-> {"claims"}],
    [verb |-> "ADD CONSTRAINT", name |-> "FK_passages_patent", on |-> "passages", needs |-> {"patents"}],
    [verb |-> "ADD CONSTRAINT", name |-> "FK_alignments_workspace", on |-> "alignments", needs |-> {"workspaces"}],
    [verb |-> "ADD CONSTRAINT", name |-> "FK_alignments_clause", on |-> "alignments", needs |-> {"clauses"}],
    [verb |-> "ADD CONSTRAINT", name |-> "FK_alignments_passage", on |-> "alignments", needs |-> {"passages"}],
    [verb |-> "ADD CONSTRAINT", name |-> "FK_novelty_scores_workspace", on |-> "novelty_scores", needs |-> {"workspaces"}],
    [verb |-> "ADD CONSTRAINT", name |-> "FK_novelty_scores_claim", on |-> "novelty_scores", needs |-> {"claims"}],
    [verb |-> "ADD CONSTRAINT", name |-> "FK_search_sessions_workspace", on |-> "search_sessions", needs |-> {"workspaces"}],
    [verb |-> "ADD CONSTRAINT", name |-> "FK_search_sessions_user", on |-> "search_sessions", needs |-> {"users"}],
    [verb |-> "ADD CONSTRAINT", name |-> "FK_claim_charts_workspace", on |-> "claim_charts", needs |-> {"workspaces"}],
    [verb |-> "ADD CONSTRAINT", name |-> "FK_claim_charts_user", on |-> "claim_charts", needs |-> {"users"}],
    [verb |-> "ADD CONSTRAINT", name |-> "FK_claim_charts_patent", on |-> "claim_charts", needs |-> {"patents"}],
    [verb |-> "ADD CONSTRAINT", name |-> "FK_citations_from_patent", on |-> "citations", needs |-> {"patents"}],
    [verb |-> "ADD CONSTRAINT", name |-> "FK_citations_to_patent", on |-> "citations", needs |-> {"patents"}],
    [verb |-> "ADD CONSTRAINT", name |-> "FK_audit_log_workspace", on |-> "audit_log", needs |-> {"workspaces"}],
    [verb |-> "ADD CONSTRAINT", name |-> "FK_audit_log_user", on |-> "audit_log", needs |-> {"users"}],
    [verb |-> "CREATE OR REPLACE FUNCTION", name |-> "update_updated_at_column", on |-> "", needs |-> {}],
    [verb |-> "CREATE TRIGGER", name |-> "update_patents_updated_at", on |-> "patents", needs |-> {"update_updated_at_column"}],
    [verb |-> "CREATE TRIGGER", name |-> "update_novelty_scores_updated_at", on |-> "novelty_scores", needs |-> {"update_updated_at_column"}]>>

\* The statements of down(), in order.
down ==
  <<[verb |-> "DROP TRIGGER IF EXISTS", name |-> "update_novelty_scores_updated_at", on |-> "novelty_scores", needs |-> {}],
    [verb |-> "DROP TRIGGER IF EXISTS", name |-> "update_patents_updated_at", on |-> "patents", needs |-> {}],
    [verb |-> "DROP FUNCTION IF EXISTS", name |-> "update_updated_at_column", on |-> "", needs |-> {}],
    [verb |-> "DROP CONSTRAINT", name |-> "FK_audit_log_user", on |-> "audit_log", needs |-> {}],
    [verb |-> "DROP CONSTRAINT", name |-> "FK_audit_log_workspace", on |-> "audit_log", needs |-> {}],
    [verb |-> "DROP CONSTRAINT", name |-> "FK_citations_to_patent", on |-> "citations", needs |-> {}],
    [verb |-> "DROP CONSTRAINT", name |-> "FK_citations_from_patent", on |-> "citations", needs |-> {}],
    [verb |-> "DROP CONSTRAINT", name |-> "FK_claim_charts_patent", on |-> "claim_charts", needs |-> {}],
    [verb |-> "DROP CONSTRAINT", name |-> "FK_claim_charts_user", on |-> "claim_charts", needs |-> {}],
    [verb |-> "DROP CONSTRAINT", name |-> "FK_claim_charts_workspace", on |-> "claim_charts", needs |-> {}],
    [verb |-> "DROP CONSTRAINT", name |-> "FK_search_sessions_user", on |-> "search_sessions", needs |-> {}],
    [verb |-> "DROP CONSTRAINT", name |-> "FK_search_sessions_workspace", on |-> "search_sessions", needs |-> {}],
    [verb |-> "DROP CONSTRAINT", name |-> "FK_novelty_scores_claim", on |-> "novelty_scores", needs |-> {}],
    [verb |-> "DROP CONSTRAINT", name |-> "FK_novelty_scores_workspace", on |-> "novelty_scores", needs |-> {}],
    [verb |-> "DROP CONSTRAINT", name |-> "FK_alignments_passage", on |-> "alignments", needs |-> {}],
    [verb |-> "DROP CONSTRAINT", name |-> "FK_alignments_clause", on |-> "alignments", needs |-> {}],
    [verb |-> "DROP CONSTRAINT", name |-> "FK_alignments_workspace", on |-> "alignments", needs |-> {}],
    [verb |-> "DROP CONSTRAINT", name |-> "FK_passages_patent", on |-> "passages", needs |-> {}],
    [verb |-> "DROP CONSTRAINT", name |-> "FK_clauses_claim", on |-> "clauses", needs |-> {}],
    [verb |-> "DROP CONSTRAINT", name |-> "FK_claims_patent", on |-> "claims", needs |-> {}],
    [verb |-> "DROP CONSTRAINT", name |-> "FK_patents_workspace", on |-> "patents", needs |-> {}],
    [verb |-> "DROP CONSTRAINT", name |-> "FK_memberships_workspace", on |-> "memberships", needs |-> {}],
    [verb |-> "DROP CONSTRAINT", name |-> "FK_memberships_user", on |-> "memberships", needs |-> {}],
    [verb |-> "DROP CONSTRAINT", name |-> "FK_workspaces_org", on |-> "workspaces", needs |-> {}],
    [verb |-> "DROP INDEX", name |-> "IDX_audit_log_created_at", on |-> "", needs |-> {}],
    [verb |-> "DROP INDEX", name |-> "IDX_audit_log_workspace_id", on |-> "", needs |-> {}],
    [verb |-> "DROP INDEX", name |-> "IDX_citations_to_patent_id", on |-> "", needs |-> {}],
    [verb |-> "DROP INDEX", name |-> "IDX_citations_from_patent_id", on |-> "", needs |-> {}],
    [verb |-> "DROP INDEX", name |-> "IDX_claim_charts_workspace_id", on |-> "", needs |-> {}],
    [verb |-> "DROP INDEX", name |-> "IDX_search_sessions_workspace_id", on |-> "", needs |-> {}],
    [verb |-> "DROP INDEX", name |-> "IDX_novelty_scores_workspace_id", on |-> "", needs |-> {}],
    [verb |-> "DROP INDEX", name |-> "IDX_alignments_workspace_id", on |-> "", needs |-> {}],
    [verb |-> "DROP INDEX", name |-> "IDX_passages_patent_id", on |-> "", needs |-> {}],
    [verb |-> "DROP INDEX", name |-> "IDX_clauses_claim_id", on |-> "", needs |-> {}],
    [verb |-> "DROP INDEX", name |-> "IDX_claims_patent_id", on |-> "", needs |-> {}],
    [verb |-> "DROP INDEX", name |-> "IDX_patents_family_id", on |-> "", needs |-> {}],
    [verb |-> "DROP INDEX", name |-> "IDX_patents_workspace_id", on |-> "", needs |-> {}],
    [verb |-> "DROP INDEX", name |-> "IDX_workspaces_org_id", on |-> "", needs |-> {}],
    [verb |-> "DROP INDEX", name |-> "IDX_passages_embedding", on |-> "", needs |-> {}],
    [verb |-> "DROP INDEX", name |-> "IDX_clauses_embedding", on |-> "", needs |-> {}],
    [verb |-> "DROP INDEX", name |-> "IDX_claims_embedding", on |-> "", needs |-> {}],
    [verb |-> "DROP TABLE", name |-> "audit_log", on |-> "", needs |-> {}],
    [verb |-> "DROP TABLE", name |-> "citations", on |-> "", needs |-> {}],
    [verb |-> "DROP TABLE", name |-> "claim_charts", on |-> "", needs |-> {}],
    [verb |-> "DROP TABLE", name |-> "search_sessions", on |-> "", needs |-> {}],
    [verb |-> "DROP TABLE", name |-> "novelty_scores", on |-> "", needs |-> {}],
    [verb |-> "DROP TABLE", name |-> "alignments", on |-> "", needs |-> {}],
    [verb |-> "DROP TABLE", name |-> "passages", on |-> "", needs |-> {}],
    [verb |-> "DROP TABLE", name |-> "clauses", on |-> "", needs |-> {}],
    [verb |-> "DROP TABLE", name |-> "claims", on |-> "", needs |-> {}],
    [verb |-> "DROP TABLE", name |-> "patents", on |-> "", needs |-> {}],
    [verb |-> "DROP TABLE", name |-> "memberships", on |-> "", needs |-> {}],
    [verb |-> "DROP TABLE", name |-> "workspaces", on |-> "", needs |-> {}],
    [verb |-> "DROP TABLE", name |-> "users", on |-> "", needs |-> {}],
    [verb |-> "DROP TABLE", name |-> "orgs", on |-> "", needs |-> {}],
    [verb |-> "DROP EXTENSION IF EXISTS", name |-> "vector", on |-> "", needs |-> {}]>>

\* The table the named object is defined on, and the objects it needs.
On(name) == {up[i].on : i \in {j \in DOMAIN up : up[j].name = name}}

Needs(name) == UNION {up[i].needs : i \in {j \in DOMAIN up : up[j].name = name}}

\* The objects that need the named one and are not dropped along with it.
Dependents(s, name) == {o \in s : name \in Needs(o) /\ name \notin On(o)}

\* Whether the database accepts the statement on schema s.
Executable(s, stmt) ==
  CASE stmt.verb \in {"CREATE EXTENSION IF NOT EXISTS", "CREATE OR REPLACE FUNCTION",
                      "DROP TRIGGER IF EXISTS"} -> TRUE
    [] stmt.verb = "CREATE TABLE" ->
         stmt.name \notin s /\ stmt.needs \subseteq s
    [] stmt.verb \in {"CREATE INDEX", "ADD CONSTRAINT", "CREATE TRIGGER"} ->
         /\ stmt.name \notin s
         /\ stmt.on \in s
         /\ stmt.needs \subseteq s
    [] stmt.verb \in {"DROP FUNCTION IF EXISTS", "DROP EXTENSION IF EXISTS"} ->
         Dependents(s, stmt.name) = {}
    [] stmt.verb = "DROP CONSTRAINT" ->
         stmt.name \in s /\ stmt.on \in s
    [] stmt.verb \in {"DROP INDEX", "DROP TABLE"} ->
         stmt.name \in s /\ Dependents(s, stmt.name) = {}

\* The schema after an accepted statement.  A create of something that is
\* there (IF NOT EXISTS, OR REPLACE) adds nothing; a drop removes the object
\* and what is defined on it.
Execute(s, stmt) ==
  IF stmt.verb \in {"CREATE EXTENSION IF NOT EXISTS", "CREATE TABLE", "CREATE INDEX",
                    "ADD CONSTRAINT", "CREATE OR REPLACE FUNCTION", "CREATE TRIGGER"}
  THEN IF stmt.name \in s THEN s ELSE s \cup {stmt.name}
  ELSE {o \in s : o # stmt.name /\ stmt.name \notin On(o)}

\* The schema after all the statements, run in order from schema s.
Run(s, stmts) ==
  LET after[i \in 0..Len(stmts)] ==
        IF i = 0 THEN s ELSE Execute(after[i - 1], stmts[i])
  IN  after[Len(stmts)]

\* Runs the next statement of a method; a refused statement fails the
\* migration, whose transaction is rolled back.
RunStatement(method, stmts, done) ==
  LET i == migration.step + 1
      start == IF method = "up" THEN schema ELSE migration.before
  IN  /\ IF Executable(schema, stmts[i])
         THEN /\ schema' = Execute(schema, stmts[i])
              /\ migration' = [method |-> IF i = Len(stmts) THEN done ELSE method,
                               step |-> IF i = Len(stmts) THEN 0 ELSE i,
                               before |-> IF migration.step = 0 THEN start
                                          ELSE migration.before]
         ELSE /\ schema' = (IF method = "up" /\ migration.step = 0 THEN schema
                            ELSE IF method = "up" THEN migration.before
                            ELSE Run(migration.before, up))
              /\ migration' = [method |-> method \o " failed", step |-> 0,
                               before |-> IF migration.step = 0 THEN start
                                          ELSE migration.before]
      /\ last' = Served(method, 0, "", "", NoConfig)
      /\ UNCHANGED <<patents, clauses, events, auditLog, comparison, novelty,
                     selectedPatent>>
      /\ UNCHANGED rest
      /\ UNCHANGED <<query, searchParams, localStorage, location, sent, db>>

upStatement ==
  /\ migration.method \in {"none", "up"}
  /\ RunStatement("up", up, "migrated")

downStatement ==
  /\ migration.method \in {"migrated", "down"}
  /\ RunStatement("down", down, "reverted")

\* What a database may hold before the migration: the extensions and the
\* trigger function, which the init script creates as well.
PreObjects ==
  {"uuid-ossp", "vector", "update_updated_at_column"}

InitMigration ==
  /\ db = EmptyDb
  /\ schema \in SUBSET PreObjects
  /\ migration = [method |-> "none", step |-> 0, before |-> schema]

NextMigration ==
  \/ upStatement
  \/ downStatement

InitUnmigrated == InitController /\ InitFrontend /\ InitMigration

SpecMigration == InitUnmigrated /\ [][NextMigration]_vars

\* The schema after up() on a database that holds the uuid extension only.
MigratedSchema == Run({"uuid-ossp"}, up)

\* The migrated schema with no rows.
InitDatabase ==
  /\ db = EmptyDb
  /\ schema = MigratedSchema
  /\ migration = [method |-> "migrated", step |-> 0,
                  before |-> {"uuid-ossp"}]

Init == InitController /\ InitFrontend /\ InitDatabase

\* POST /patents/ingest.  metadata.prio_date and metadata.pub_date are taken
\* from the request (or are today's date when absent).
IngestPatent(user_id, workspace_id, prio_date, pub_date) ==
  /\ Len(patents) < MaxPatents
  /\ AuditRoom
  /\ hasWorkspaceAccess(user_id, workspace_id)
  /\ patents' = Append(patents, [workspace_id |-> workspace_id,
                                 prio_date |-> prio_date,
                                 pub_date |-> pub_date])
  /\ events' = Append(events, [type |-> "ingest", id |-> Len(patents) + 1])
  /\ auditLog' = Append(auditLog, [workspace_id |-> workspace_id,
                                   user_id |-> user_id,
                                   action |-> "patent_ingest",
                                   patent_id |-> Len(patents) + 1,
                                   claim_num |-> 0])
  /\ last' = Served("ingest", 201, user_id, workspace_id, NoConfig)
  /\ UNCHANGED <<clauses, comparison, novelty, selectedPatent>>
  /\ UNCHANGED rest
  /\ UNCHANGED aux

ingestPatent ==
  \E user_id \in Users, workspace_id \in Workspaces,
     prio_date \in Dates, pub_date \in Dates :
    IngestPatent(user_id, workspace_id, prio_date, pub_date)

\* The ingest worker segments a claim of an ingested patent into clauses
\* (rows of table clauses with clause_index 0..n-1).
segmentClaim ==
  \E patent_id \in 1..Len(patents), claim_num \in ClaimNums, n \in 1..MaxClauses :
    /\ clauses[<<patent_id, claim_num>>] = 0
    /\ clauses' = [clauses EXCEPT ![<<patent_id, claim_num>>] = n]
    /\ last' = Served("segment", 0, "", "", NoConfig)
    /\ UNCHANGED <<patents, events, auditLog, comparison, novelty, selectedPatent>>
    /\ UNCHANGED rest
    /\ UNCHANGED aux

\* POST /patents/compare with the given reference list.
ComparePatent(user_id, workspace_id, patent_id, claim_num, refs) ==
  /\ AuditRoom
  /\ IF hasWorkspaceAccess(user_id, workspace_id) /\ findOne(patent_id, workspace_id)
     THEN \E comparison_id \in GeneratedIds :
            /\ events' = Append(events, [type |-> "alignment", id |-> patent_id])
            /\ auditLog' = Append(auditLog, [workspace_id |-> workspace_id,
                                             user_id |-> user_id,
                                             action |-> "patent_compare",
                                             patent_id |-> patent_id,
                                             claim_num |-> claim_num])
            /\ comparison' = [comparison_id |-> comparison_id,
                              patent_id |-> patent_id,
                              claim_num |-> claim_num,
                              alignments |-> getMockAlignments(patent_id, claim_num, refs),
                              status |-> "completed"]
            /\ last' = Served("compare", 201, user_id, workspace_id, NoConfig)
     ELSE \* the HttpException thrown in the try block is caught and rethrown
          /\ last' = Served("compare", 500, user_id, workspace_id, NoConfig)
          /\ UNCHANGED <<events, auditLog, comparison>>
  /\ UNCHANGED <<patents, clauses, novelty, selectedPatent>>
  /\ UNCHANGED rest
  /\ UNCHANGED aux

comparePatent ==
  \E user_id \in Users, workspace_id \in Workspaces, patent_id \in PatentIds,
     claim_num \in ClaimNums, refs \in SeqsUpTo(PatentIds, MaxRefs) :
    ComparePatent(user_id, workspace_id, patent_id, claim_num, refs)

\* The same handler, called with reference lists of up to MaxLongRefs entries
\* (the reference ids are taken round robin from PatentIds).
comparePatentLong ==
  \E user_id \in Users, workspace_id \in Workspaces, patent_id \in PatentIds,
     claim_num \in ClaimNums, refs \in LongRefLists :
    ComparePatent(user_id, workspace_id, patent_id, claim_num, refs)

\* POST /patents/novelty.  The handler reads patent_id, claim_num and
\* workspace_id of the body; anything else the body carries (config) is not
\* read.
CalculateNovelty(user_id, workspace_id, patent_id, claim_num, config) ==
  /\ AuditRoom
  /\ IF hasWorkspaceAccess(user_id, workspace_id) /\ findOne(patent_id, workspace_id)
     THEN \E novelty_id \in GeneratedIds :
            LET mockNovelty == getMockNovelty(patent_id, claim_num) IN
            /\ events' = Append(events, [type |-> "novelty", id |-> patent_id])
            /\ auditLog' = Append(auditLog, [workspace_id |-> workspace_id,
                                             user_id |-> user_id,
                                             action |-> "patent_novelty",
                                             patent_id |-> patent_id,
                                             claim_num |-> claim_num])
            /\ novelty' = [novelty_id |-> novelty_id,
                           patent_id |-> patent_id,
                           claim_num |-> claim_num,
                           novelty_score |-> mockNovelty.novelty_score,
                           obviousness_score |-> mockNovelty.obviousness_score,
                           confidence_band |-> mockNovelty.confidence_band,
                           clause_details |-> mockNovelty.clause_details,
                           status |-> "completed"]
            /\ last' = Served("novelty", 201, user_id, workspace_id, config)
     ELSE /\ last' = Served("novelty", 500, user_id, workspace_id, config)
          /\ UNCHANGED <<events, auditLog, novelty>>
  /\ UNCHANGED <<patents, clauses, comparison, selectedPatent>>
  /\ UNCHANGED rest
  /\ UNCHANGED aux

calculateNovelty ==
  \E user_id \in Users, workspace_id \in Workspaces, patent_id \in PatentIds,
     claim_num \in ClaimNums :
    CalculateNovelty(user_id, workspace_id, patent_id, claim_num, NoConfig)

\* Home: a click on a search result or list entry selects that patent; the
\* right panel then shows ClaimViewer, AlignmentTable and NoveltyCard.
setSelectedPatent ==
  \E patent_id \in 1..Len(patents) :
    /\ selectedPatent # patent_id
    /\ selectedPatent' = patent_id
    /\ UNCHANGED <<patents, clauses, events, auditLog, last, comparison, novelty>>
    /\ UNCHANGED rest
    /\ UNCHANGED aux

Next ==
  \/ ingestPatent
  \/ segmentClaim
  \/ comparePatent
  \/ calculateNovelty
  \/ setSelectedPatent

Spec == Init /\ [][Next]_vars

\* Ingest and novelty alone: the novelty handler reads the patents table only.
NextNovelty ==
  \/ ingestPatent
  \/ calculateNovelty
  \/ setSelectedPatent

SpecNovelty == Init /\ [][NextNovelty]_vars

\* ------------------------------------------- search, chart and export

Min(a, b) == IF a < b THEN a ELSE b

\* patentRepository.find({ where: { workspace_id }, take }): the query has no
\* ORDER BY, so the rows come back in any order the database picks.
find(workspace_id, take) ==
  LET rows == {p \in 1..Len(patents) : patents[p].workspace_id = workspace_id}
      n == Min(take, Cardinality(rows))
  IN {found \in [1..n -> rows] :
        \A i, j \in 1..n : found[i] = found[j] => i = j}

\* The rows of the workspace in insertion order, cut at take: one of the
\* orders find can return.
insertionOrder(workspace_id, take) ==
  LET rows == {p \in 1..Len(patents) : patents[p].workspace_id = workspace_id}
      n == Min(take, Cardinality(rows))
  IN [i \in 1..n |->
        CHOOSE p \in rows : Cardinality({q \in rows : q < p}) = i - 1]

\* getMockSearchResults, given the rows found: the score is
\* 1.0 - index * 0.1 and the search type is always 'hybrid'.
getMockSearchResults(found) ==
  [index \in 1..Len(found) |->
     [patent_id |-> found[index],
      score |-> 100 - (index - 1) * 10,
      search_type |-> "hybrid"]]

\* POST /patents/search, the repository returning the rows in one of the
\* given orders.  The workspace is the x-workspace-id header ("" when the
\* header is missing); the 400 thrown for a missing header is caught and
\* rethrown as 500.  The audit entry's details carry k.
SearchPatentsFinding(user_id, workspace_id, k, orders) ==
  /\ AuditRoom
  /\ IF workspace_id # "" /\ hasWorkspaceAccess(user_id, workspace_id)
     THEN \E search_id \in GeneratedIds, found \in orders :
            LET mockResults == getMockSearchResults(found) IN
            /\ events' = Append(events, [type |-> "search", id |-> 0])
            /\ searchSessions' = Append(searchSessions,
                                        [workspace_id |-> workspace_id,
                                         user_id |-> user_id,
                                         results |-> mockResults])
            /\ auditLog' = Append(auditLog, [workspace_id |-> workspace_id,
                                             user_id |-> user_id,
                                             action |-> "patent_search",
                                             patent_id |-> 0,
                                             claim_num |-> 0,
                                             k |-> k])
            /\ search' = [results |-> mockResults,
                          total |-> Len(mockResults),
                          search_id |-> search_id]
            /\ last' = Served("search", 201, user_id, workspace_id, NoConfig)
     ELSE /\ last' = Served("search", 500, user_id, workspace_id, NoConfig)
          /\ UNCHANGED <<events, searchSessions, auditLog, search>>
  /\ UNCHANGED <<patents, clauses, comparison, novelty, selectedPatent,
                 chart, bundle, exportRequest>>
  /\ UNCHANGED aux

SearchPatents(user_id, workspace_id, k) ==
  SearchPatentsFinding(user_id, workspace_id, k, find(workspace_id, k))

searchPatents ==
  \E user_id \in Users, workspace_id \in Workspaces \cup {""}, k \in 1..MaxK :
    SearchPatents(user_id, workspace_id, k)

\* Mutant: the chart handler writes its audit entry twice.
GenerateClaimChart_TwoAudits(user_id, workspace_id, patent_id, claim_num, chart_type) ==
  /\ AuditRoom
  /\ IF hasWorkspaceAccess(user_id, workspace_id) /\ findOne(patent_id, workspace_id)
     THEN \E chart_id \in GeneratedIds :
            LET entry == [workspace_id |-> workspace_id,
                          user_id |-> user_id,
                          action |-> "chart_generate",
                          patent_id |-> patent_id,
                          claim_num |-> claim_num] IN
            /\ events' = Append(events, [type |-> "chart", id |-> patent_id])
            /\ auditLog' = Append(Append(auditLog, entry), entry)
            /\ chart' = [chart_id |-> chart_id,
                         patent_id |-> patent_id,
                         claim_num |-> claim_num,
                         chart_type |-> chart_type,
                         file_url |-> <<"charts/mock_chart", patent_id, claim_num, chart_type>>,
                         status |-> "completed"]
            /\ last' = Served("chart", 201, user_id, workspace_id, NoConfig)
     ELSE /\ last' = Served("chart", 500, user_id, workspace_id, NoConfig)
          /\ UNCHANGED <<events, auditLog, chart>>
  /\ UNCHANGED <<patents, clauses, comparison, novelty, selectedPatent,
                 searchSessions, search, bundle, exportRequest>>
  /\ UNCHANGED aux

\* POST /patents/charts/claim.
GenerateClaimChart(user_id, workspace_id, patent_id, claim_num, chart_type) ==
  /\ AuditRoom
  /\ IF hasWorkspaceAccess(user_id, workspace_id) /\ findOne(patent_id, workspace_id)
     THEN \E chart_id \in GeneratedIds :
            /\ events' = Append(events, [type |-> "chart", id |-> patent_id])
            /\ auditLog' = Append(auditLog, [workspace_id |-> workspace_id,
                                             user_id |-> user_id,
                                             action |-> "chart_generate",
                                             patent_id |-> patent_id,
                                             claim_num |-> claim_num])
            /\ chart' = [chart_id |-> chart_id,
                         patent_id |-> patent_id,
                         claim_num |-> claim_num,
                         chart_type |-> chart_type,
                         file_url |-> <<"charts/mock_chart", patent_id, claim_num, chart_type>>,
                         status |-> "completed"]
            /\ last' = Served("chart", 201, user_id, workspace_id, NoConfig)
     ELSE /\ last' = Served("chart", 500, user_id, workspace_id, NoConfig)
          /\ UNCHANGED <<events, auditLog, chart>>
  /\ UNCHANGED <<patents, clauses, comparison, novelty, selectedPatent,
                 searchSessions, search, bundle, exportRequest>>
  /\ UNCHANGED aux

generateClaimChart ==
  \E user_id \in Users, workspace_id \in Workspaces, patent_id \in PatentIds,
     claim_num \in ClaimNums, chart_type \in {"docx", "pdf"} :
    GenerateClaimChart(user_id, workspace_id, patent_id, claim_num, chart_type)

\* Mutant: the export event is published before the patents are validated.
CreateExportBundle_PublishFirst(user_id, workspace_id, patent_ids, export_type) ==
  /\ AuditRoom
  /\ exportRequest' = [patent_ids |-> patent_ids,
                        export_type |-> export_type,
                        workspace_id |-> workspace_id]
  /\ IF /\ hasWorkspaceAccess(user_id, workspace_id)
        /\ \A i \in DOMAIN patent_ids : findOne(patent_ids[i], workspace_id)
     THEN \E export_id \in GeneratedIds :
            /\ events' = Append(events, [type |-> "export", id |-> 0])
            /\ auditLog' = Append(auditLog, [workspace_id |-> workspace_id,
                                             user_id |-> user_id,
                                             action |-> "export_bundle",
                                             patent_id |-> 0,
                                             claim_num |-> 0])
            /\ bundle' = [export_id |-> export_id,
                          patent_ids |-> patent_ids,
                          export_type |-> export_type,
                          file_url |-> <<"exports/mock_export", patent_ids, export_type>>,
                          status |-> "completed"]
            /\ last' = Served("export", 201, user_id, workspace_id, NoConfig)
     ELSE /\ last' = Served("export", 500, user_id, workspace_id, NoConfig)
          /\ events' = Append(events, [type |-> "export", id |-> 0])
          /\ UNCHANGED <<auditLog, bundle>>
  /\ UNCHANGED <<patents, clauses, comparison, novelty, selectedPatent,
                 searchSessions, search, chart>>
  /\ UNCHANGED aux

\* POST /patents/exports/bundle.  Every listed patent must be a row of the
\* workspace; the 404 thrown in the loop is caught and rethrown as 500.
CreateExportBundle(user_id, workspace_id, patent_ids, export_type) ==
  /\ AuditRoom
  /\ exportRequest' = [patent_ids |-> patent_ids,
                        export_type |-> export_type,
                        workspace_id |-> workspace_id]
  /\ IF /\ hasWorkspaceAccess(user_id, workspace_id)
        /\ \A i \in DOMAIN patent_ids : findOne(patent_ids[i], workspace_id)
     THEN \E export_id \in GeneratedIds :
            /\ events' = Append(events, [type |-> "export", id |-> 0])
            /\ auditLog' = Append(auditLog, [workspace_id |-> workspace_id,
                                             user_id |-> user_id,
                                             action |-> "export_bundle",
                                             patent_id |-> 0,
                                             claim_num |-> 0])
            /\ bundle' = [export_id |-> export_id,
                          patent_ids |-> patent_ids,
                          export_type |-> export_type,
                          file_url |-> <<"exports/mock_export", patent_ids, export_type>>,
                          status |-> "completed"]
            /\ last' = Served("export", 201, user_id, workspace_id, NoConfig)
     ELSE /\ last' = Served("export", 500, user_id, workspace_id, NoConfig)
          /\ UNCHANGED <<events, auditLog, bundle>>
  /\ UNCHANGED <<patents, clauses, comparison, novelty, selectedPatent,
                 searchSessions, search, chart>>
  /\ UNCHANGED aux

createExportBundle ==
  \E user_id \in Users, workspace_id \in Workspaces,
     patent_ids \in SeqsUpTo(PatentIds, MaxExport), export_type \in {"zip", "pdf"} :
    CreateExportBundle(user_id, workspace_id, patent_ids, export_type)


\* The six audited handlers as one client calls them: patents dated day 1,
\* and the patent itself as the only reference or export entry.  The patent
\* id, the workspace and the header vary, so each handler both succeeds and
\* fails.
auditedIngest ==
  \E user_id \in Users, workspace_id \in Workspaces :
    IngestPatent(user_id, workspace_id, 1, 1)

auditedCompare ==
  \E user_id \in Users, workspace_id \in Workspaces, patent_id \in PatentIds,
     claim_num \in ClaimNums :
    ComparePatent(user_id, workspace_id, patent_id, claim_num, <<patent_id>>)

auditedExport ==
  \E user_id \in Users, workspace_id \in Workspaces, patent_id \in PatentIds :
    CreateExportBundle(user_id, workspace_id, <<patent_id>>, "zip")

\* Ingest (patents dated day 1) and compare with long reference lists.
NextLongRefs ==
  \/ auditedIngest
  \/ comparePatentLong

SpecLongRefs == Init /\ [][NextLongRefs]_vars

auditedSearch ==
  \E user_id \in Users, workspace_id \in Workspaces \cup {""} :
    SearchPatents(user_id, workspace_id, 1)

auditedChart ==
  \E user_id \in Users, workspace_id \in Workspaces, patent_id \in PatentIds,
     claim_num \in ClaimNums :
    GenerateClaimChart(user_id, workspace_id, patent_id, claim_num, "docx")

NextAudit ==
  \/ auditedIngest
  \/ auditedSearch
  \/ auditedCompare
  \/ calculateNovelty
  \/ auditedChart
  \/ auditedExport

SpecAudit == Init /\ [][NextAudit]_vars

\* Export requests that list up to MaxExport different patents, in
\* ascending order of id.
exportDistinctPatents ==
  \E user_id \in Users, workspace_id \in Workspaces,
     patent_ids \in {s \in SeqsUpTo(PatentIds, MaxExport) :
                      \A i, j \in DOMAIN s : i < j => s[i] < s[j]} :
    CreateExportBundle(user_id, workspace_id, patent_ids, "zip")

\* Ingest and export bundles of up to MaxExport patent ids.
NextExport ==
  \/ auditedIngest
  \/ exportDistinctPatents

SpecExport == Init /\ [][NextExport]_vars

\* ------------------------------------------------------- workspace guard

\* Table memberships: u1 is a member of w1 and of no other workspace.
Memberships == {<<"u1", "w1">>}

\* WorkspaceGuard.canActivate: the workspace checked is the x-workspace-id
\* header when present, else the workspace_id of the body or query ("" when
\* absent).
canActivate(user_id, header, workspace_id) ==
  LET workspaceId == IF header # "" THEN header ELSE workspace_id IN
  /\ workspaceId # ""
  /\ <<user_id, workspaceId>> \in Memberships

\* The guard's ForbiddenException: the handler does not run.
Forbidden(op, user_id, workspace_id) ==
  /\ last' = Served(op, 403, user_id, workspace_id, NoConfig)
  /\ UNCHANGED <<patents, clauses, events, auditLog, comparison, novelty,
                 selectedPatent>>
  /\ UNCHANGED rest
  /\ UNCHANGED aux

\* Mutant: a successful read of a patent writes an audit entry.
GetPatent_Audited(user_id, patent_id) ==
  /\ IF patent_id \in 1..Len(patents)
     THEN /\ last' = Served("getPatent", 200, user_id,
                            patents[patent_id].workspace_id, NoConfig)
          /\ auditLog' = Append(auditLog,
                                [workspace_id |-> patents[patent_id].workspace_id,
                                 user_id |-> user_id,
                                 action |-> "patent_view",
                                 patent_id |-> patent_id,
                                 claim_num |-> 0])
     ELSE /\ last' = Served("getPatent", 404, user_id, "", NoConfig)
          /\ UNCHANGED auditLog
  /\ UNCHANGED <<patents, clauses, events, comparison, novelty, selectedPatent>>
  /\ UNCHANGED rest
  /\ UNCHANGED aux

\* GET /patents/:id.  The patent is looked up by id alone; the workspace the
\* response is about is the patent's own.
GetPatent(user_id, patent_id) ==
  /\ IF patent_id \in 1..Len(patents)
     THEN IF hasWorkspaceAccess(user_id, patents[patent_id].workspace_id)
          THEN last' = Served("getPatent", 200, user_id,
                              patents[patent_id].workspace_id, NoConfig)
          ELSE last' = Served("getPatent", 403, user_id,
                              patents[patent_id].workspace_id, NoConfig)
     ELSE last' = Served("getPatent", 404, user_id, "", NoConfig)
  /\ UNCHANGED <<patents, clauses, events, auditLog, comparison, novelty,
                 selectedPatent>>
  /\ UNCHANGED rest
  /\ UNCHANGED aux

\* The requests as they pass the controller's WorkspaceGuard first.
guardedIngestPatent ==
  \E user_id \in Users, header \in Workspaces \cup {""},
     workspace_id \in Workspaces, prio_date \in Dates, pub_date \in Dates :
    IF canActivate(user_id, header, workspace_id)
    THEN IngestPatent(user_id, workspace_id, prio_date, pub_date)
    ELSE Forbidden("ingest", user_id, workspace_id)

guardedComparePatent ==
  \E user_id \in Users, header \in Workspaces \cup {""},
     workspace_id \in Workspaces, patent_id \in PatentIds,
     claim_num \in ClaimNums, refs \in SeqsUpTo(PatentIds, MaxRefs) :
    IF canActivate(user_id, header, workspace_id)
    THEN ComparePatent(user_id, workspace_id, patent_id, claim_num, refs)
    ELSE Forbidden("compare", user_id, workspace_id)

guardedGetPatent ==
  \E user_id \in Users, header \in Workspaces \cup {""}, patent_id \in PatentIds :
    IF canActivate(user_id, header, "")
    THEN GetPatent(user_id, patent_id)
    ELSE Forbidden("getPatent", user_id, header)

NextGuard ==
  \/ guardedIngestPatent
  \/ guardedComparePatent
  \/ guardedGetPatent

SpecGuard == Init /\ [][NextGuard]_vars

\* ------------------------------------------------ thresholds and weights

\* Thresholds and weights a novelty request body may carry, in hundredths;
\* the body is an interface and is not validated.
Configs == [high_threshold : {80, 110}, weight : {-100, 100}]

calculateNoveltyConfigured ==
  \E user_id \in Users, workspace_id \in Workspaces, patent_id \in PatentIds,
     claim_num \in ClaimNums, config \in Configs :
    CalculateNovelty(user_id, workspace_id, patent_id, claim_num, config)

NextConfig ==
  \/ ingestPatent
  \/ calculateNoveltyConfigured

SpecConfig == Init /\ [][NextConfig]_vars

\* ------------------------------------------------ ingest with a failing write

\* POST /patents/ingest when one of its two awaited repository writes
\* rejects (the database refuses the statement).  The handler runs no
\* transaction: what was done before the rejection stays, and the catch
\* block answers 500.
IngestPatentFailing(user_id, workspace_id, prio_date, pub_date, rejected) ==
  /\ Len(patents) < MaxPatents
  /\ AuditRoom
  /\ hasWorkspaceAccess(user_id, workspace_id)
  /\ IF rejected = "patentRepository.save"
     THEN UNCHANGED <<patents, events>>
     ELSE /\ patents' = Append(patents, [workspace_id |-> workspace_id,
                                         prio_date |-> prio_date,
                                         pub_date |-> pub_date])
          /\ events' = Append(events, [type |-> "ingest", id |-> Len(patents) + 1])
  /\ last' = Served("ingest", 500, user_id, workspace_id, NoConfig)
  /\ UNCHANGED <<clauses, auditLog, comparison, novelty, selectedPatent>>
  /\ UNCHANGED rest
  /\ UNCHANGED aux

ingestPatentFailing ==
  \E user_id \in Users, workspace_id \in Workspaces,
     prio_date \in Dates, pub_date \in Dates,
     rejected \in {"patentRepository.save", "auditLogRepository.save"} :
    IngestPatentFailing(user_id, workspace_id, prio_date, pub_date, rejected)

NextIngest ==
  \/ ingestPatent
  \/ ingestPatentFailing

SpecIngest == Init /\ [][NextIngest]_vars

\* ------------------------------------------------------ abandoned requests

\* A novelty request whose caller cancels it (closes the connection) while
\* the handler runs; it carries no thresholds or weights.  The handler has no
\* abort signal and no close listener: it runs as for any other request.
Aborted == [configured |-> FALSE, aborted |-> TRUE]

calculateNoveltyAborted ==
  \E user_id \in Users, workspace_id \in Workspaces, patent_id \in PatentIds,
     claim_num \in ClaimNums :
    CalculateNovelty(user_id, workspace_id, patent_id, claim_num, Aborted)

NextCancel ==
  \/ ingestPatent
  \/ calculateNovelty
  \/ calculateNoveltyAborted

SpecCancel == Init /\ [][NextCancel]_vars

\* ------------------------------------------------- frontend and API client

Queries == {"", "image recognition"}
SearchTypes == {"hybrid", "bm25", "dense"}

\* The HTTP statuses a response can carry; 0 is an error without a response
\* (error.response undefined).
Statuses == {0, 200, 201, 400, 401, 403, 404, 500}

NoAuthorization == [scheme |-> "none", token |-> ""]

\* onChange of the query input.
setQuery ==
  \E text \in Queries :
    /\ query' = text
    /\ last' = Served("setQuery", 0, "", "", NoConfig)
    /\ UNCHANGED <<patents, clauses, events, auditLog, comparison, novelty,
                   selectedPatent>>
    /\ UNCHANGED rest
    /\ UNCHANGED <<searchParams, localStorage, location, sent, db, schema, migration>>

\* onChange of the Search Type select.
selectSearchType ==
  \E search_type \in SearchTypes :
    /\ searchParams' = [searchParams EXCEPT !.search_type = search_type]
    /\ last' = Served("selectSearchType", 0, "", "", NoConfig)
    /\ UNCHANGED <<patents, clauses, events, auditLog, comparison, novelty,
                   selectedPatent>>
    /\ UNCHANGED rest
    /\ UNCHANGED <<query, localStorage, location, sent, db, schema, migration>>

\* handleSearch: onSubmit of the search form.
handleSearch ==
  /\ searchParams' = [query |-> query, k |-> 10, search_type |-> "hybrid"]
  /\ last' = Served("handleSearch", 0, "", "", NoConfig)
  /\ UNCHANGED <<patents, clauses, events, auditLog, comparison, novelty,
                 selectedPatent>>
  /\ UNCHANGED rest
  /\ UNCHANGED <<query, localStorage, location, sent, db, schema, migration>>

\* The request interceptor: the headers it adds from localStorage.
requestInterceptor ==
  [Authorization |-> IF localStorage.auth_token # ""
                     THEN [scheme |-> "Bearer", token |-> localStorage.auth_token]
                     ELSE NoAuthorization,
   x_workspace_id |-> localStorage.workspace_id]

\* api.post / api.get: one request at a time is in flight.
Send(op, url, data) ==
  /\ ~sent.pending
  /\ sent' = [sent |-> TRUE, pending |-> TRUE, status |-> 0, url |-> url,
              data |-> data, headers |-> requestInterceptor]
  /\ last' = Served(op, 0, "", "", NoConfig)
  /\ UNCHANGED <<patents, clauses, events, auditLog, comparison, novelty,
                 selectedPatent>>
  /\ UNCHANGED rest
  /\ UNCHANGED <<query, searchParams, localStorage, location, db, schema, migration>>

\* useQuery runs searchPatents(searchParams) while searchParams.query is set.
patentApi_search ==
  /\ searchParams.query # ""
  /\ Send("patentApi.search", "/patents/search", searchParams)

patentApi_getById ==
  \E id \in PatentIds :
    Send("patentApi.getById", "/patents/:id", [id |-> id])

\* Mutant: every authorization error (401 or 403) logs the user out.
responseInterceptor_LogoutOnForbidden(status) ==
  IF status \in {401, 403}
  THEN /\ localStorage' = [localStorage EXCEPT !.auth_token = ""]
       /\ location' = "/login"
  ELSE UNCHANGED <<localStorage, location>>

\* The response interceptor: a response passes through; of the errors, the
\* one with status 401 removes the token and redirects.
responseInterceptor(status) ==
  IF status \in {200, 201}
  THEN UNCHANGED <<localStorage, location>>
  ELSE IF status = 401
       THEN /\ localStorage' = [localStorage EXCEPT !.auth_token = ""]
            /\ location' = "/login"
       ELSE UNCHANGED <<localStorage, location>>

\* The response (or the error) of the request in flight arrives.
receiveResponse ==
  \E status \in Statuses :
    /\ sent.pending
    /\ sent' = [sent EXCEPT !.pending = FALSE, !.status = status]
    /\ responseInterceptor(status)
    /\ last' = Served("receiveResponse", status, "", "", NoConfig)
    /\ UNCHANGED <<patents, clauses, events, auditLog, comparison, novelty,
                   selectedPatent>>
    /\ UNCHANGED rest
    /\ UNCHANGED <<query, searchParams, db, schema, migration>>

\* The browser with or without a stored token and workspace id.
InitBrowser ==
  /\ query = ""
  /\ searchParams = [query |-> "", k |-> 10, search_type |-> "hybrid"]
  /\ localStorage \in [auth_token : {"", "t1"}, workspace_id : {"", "w1"}]
  /\ location = "/"
  /\ sent = NoRequest

NextFrontend ==
  \/ setQuery
  \/ selectSearchType
  \/ handleSearch
  \/ patentApi_search
  \/ patentApi_getById
  \/ receiveResponse

InitClient == InitController /\ InitBrowser /\ InitDatabase

SpecFrontend == InitClient /\ [][NextFrontend]_vars

\* ------------------------------------------------- search over a large table

\* A patents table of up to MaxBulk rows, all ingested by u1 into w1 on day
\* 1, with the events and audit entries of those ingests.
InitBulk ==
  \E n \in 0..MaxBulk :
    /\ patents = [i \in 1..n |-> [workspace_id |-> "w1", prio_date |-> 1,
                                  pub_date |-> 1]]
    /\ events = [i \in 1..n |-> [type |-> "ingest", id |-> i]]
    /\ auditLog = [i \in 1..n |-> [workspace_id |-> "w1", user_id |-> "u1",
                                   action |-> "patent_ingest",
                                   patent_id |-> i, claim_num |-> 0]]
    /\ clauses = [c \in PatentIds \X ClaimNums |-> 0]
    /\ last = Served("none", 0, "", "", NoConfig)
    /\ comparison = NoResponse
    /\ novelty = NoResponse
    /\ selectedPatent = 0
    /\ searchSessions = << >>
    /\ search = NoResponse
    /\ chart = NoResponse
    /\ bundle = NoResponse
    /\ exportRequest = NoResponse

\* Searches with k up to MaxBulk, the rows coming back in insertion order.
searchPatentsBulk ==
  \E user_id \in Users, workspace_id \in Workspaces \cup {""}, k \in 1..MaxBulk :
    SearchPatentsFinding(user_id, workspace_id, k,
                         {insertionOrder(workspace_id, k)})

NextBulk ==
  \/ searchPatentsBulk

InitBulkSearch == InitBulk /\ InitFrontend /\ InitDatabase

SpecBulk == InitBulkSearch /\ [][NextBulk]_vars

\* ---------------------------------------------------------- read endpoints

\* A read of a patent's claims or passages: the same lookup and access check
\* as getPatent, then a find on the claims or passages of the patent.
ReadOfPatent(op, user_id, patent_id) ==
  /\ IF patent_id \in 1..Len(patents)
     THEN IF hasWorkspaceAccess(user_id, patents[patent_id].workspace_id)
          THEN last' = Served(op, 200, user_id,
                              patents[patent_id].workspace_id, NoConfig)
          ELSE last' = Served(op, 403, user_id,
                              patents[patent_id].workspace_id, NoConfig)
     ELSE last' = Served(op, 404, user_id, "", NoConfig)
  /\ UNCHANGED <<patents, clauses, events, auditLog, comparison, novelty,
                 selectedPatent>>
  /\ UNCHANGED rest
  /\ UNCHANGED aux

\* GET /patents?workspace_id=...: a page of the workspace's patents; without
\* the query parameter ("") the query either finds nothing or is refused,
\* and the refusal is rethrown as 500.
GetPatents(user_id, workspace_id) ==
  /\ \E status \in IF workspace_id = "" THEN {200, 500} ELSE {200} :
       last' = Served("getPatents", status, user_id, workspace_id, NoConfig)
  /\ UNCHANGED <<patents, clauses, events, auditLog, comparison, novelty,
                 selectedPatent>>
  /\ UNCHANGED rest
  /\ UNCHANGED aux

getPatents ==
  \E user_id \in Users, workspace_id \in Workspaces \cup {""} :
    GetPatents(user_id, workspace_id)

getPatent ==
  \E user_id \in Users, patent_id \in PatentIds : GetPatent(user_id, patent_id)

getPatentClaims ==
  \E user_id \in Users, patent_id \in PatentIds :
    ReadOfPatent("getPatentClaims", user_id, patent_id)

getPatentPassages ==
  \E user_id \in Users, patent_id \in PatentIds :
    ReadOfPatent("getPatentPassages", user_id, patent_id)

NextRead ==
  \/ ingestPatent
  \/ getPatents
  \/ getPatent
  \/ getPatentClaims
  \/ getPatentPassages

SpecRead == Init /\ [][NextRead]_vars

\* ------------------------------------------------------- rows of the schema

\* The values of the uuid columns.
Uuids == {"a", "b"}

Tables ==
  {"workspaces", "patents", "claims", "clauses", "passages", "alignments",
   "novelty_scores"}

\* The rows a table's columns admit (the key columns only).
Rows(table) ==
  CASE table = "workspaces" -> [id : Uuids]
    [] table = "patents" -> [id : Uuids, workspace_id : Uuids]
    [] table = "claims" -> [id : Uuids, patent_id : Uuids]
    [] table = "clauses" -> [id : Uuids, claim_id : Uuids]
    [] table = "passages" -> [id : Uuids, patent_id : Uuids]
    [] table = "alignments" ->
         [id : Uuids, workspace_id : Uuids, clause_id : Uuids, passage_id : Uuids]
    [] table = "novelty_scores" -> [id : Uuids, workspace_id : Uuids, claim_id : Uuids]

\* The FOREIGN KEY constraints among these tables: the referencing table and
\* column, and the referenced table (always by its id).
ForeignKeys ==
  {[table |-> "patents", column |-> "workspace_id", references |-> "workspaces"],
   [table |-> "claims", column |-> "patent_id", references |-> "patents"],
   [table |-> "clauses", column |-> "claim_id", references |-> "claims"],
   [table |-> "passages", column |-> "patent_id", references |-> "patents"],
   [table |-> "alignments", column |-> "workspace_id", references |-> "workspaces"],
   [table |-> "alignments", column |-> "clause_id", references |-> "clauses"],
   [table |-> "alignments", column |-> "passage_id", references |-> "passages"],
   [table |-> "novelty_scores", column |-> "workspace_id", references |-> "workspaces"],
   [table |-> "novelty_scores", column |-> "claim_id", references |-> "claims"]}

\* The UNIQUE constraints besides the primary keys: UQ_alignments_clause_passage
\* and UQ_novelty_scores_claim.
UniqueColumns ==
  {[table |-> "alignments", columns |-> {"clause_id", "passage_id"}],
   [table |-> "novelty_scores", columns |-> {"claim_id"}]}

Ids(rows) == {r.id : r \in rows}

RowCount(d) ==
  Cardinality(d.workspaces) + Cardinality(d.patents) + Cardinality(d.claims)
  + Cardinality(d.clauses) + Cardinality(d.passages)
  + Cardinality(d.alignments) + Cardinality(d.novelty_scores)

\* The constraints an INSERT of the row has to meet.
PrimaryKeyFree(d, table, row) == row.id \notin Ids(d[table])

ReferencesExist(d, table, row) ==
  \A fk \in ForeignKeys :
    fk.table = table => row[fk.column] \in Ids(d[fk.references])

UniqueFree(d, table, row) ==
  \A uq \in UniqueColumns :
    uq.table = table =>
      ~ \E other \in d[table] : \A c \in uq.columns : other[c] = row[c]

\* Mutant: the delete removes the rows of the table itself and of the tables
\* that reference it directly, not the rows further down.
OnDeleteCascade_OneLevel(d, table, ids) ==
  [t \in Tables |->
     IF t = table
     THEN {r \in d[t] : r.id \notin ids}
     ELSE {r \in d[t] :
             ~ \E fk \in ForeignKeys :
                 /\ fk.table = t
                 /\ fk.references = table
                 /\ r[fk.column] \in ids}]

\* ON DELETE CASCADE: the rows of every table that reference a deleted row
\* are deleted too, and so on down the references.
OnDeleteCascade(d, table, ids) ==
  LET gone(rows, del) == {r \in rows : r.id \in del}
      W == IF table = "workspaces" THEN ids ELSE {}
      P == (IF table = "patents" THEN ids ELSE {})
           \cup {r.id : r \in {x \in d.patents : x.workspace_id \in W}}
      C == (IF table = "claims" THEN ids ELSE {})
           \cup {r.id : r \in {x \in d.claims : x.patent_id \in P}}
      L == (IF table = "clauses" THEN ids ELSE {})
           \cup {r.id : r \in {x \in d.clauses : x.claim_id \in C}}
      G == (IF table = "passages" THEN ids ELSE {})
           \cup {r.id : r \in {x \in d.passages : x.patent_id \in P}}
      A == (IF table = "alignments" THEN ids ELSE {})
           \cup {r.id : r \in {x \in d.alignments :
                                 \/ x.workspace_id \in W
                                 \/ x.clause_id \in L
                                 \/ x.passage_id \in G}}
      N == (IF table = "novelty_scores" THEN ids ELSE {})
           \cup {r.id : r \in {x \in d.novelty_scores :
                                 \/ x.workspace_id \in W
                                 \/ x.claim_id \in C}}
  IN  [workspaces |-> d.workspaces \ gone(d.workspaces, W),
       patents |-> d.patents \ gone(d.patents, P),
       claims |-> d.claims \ gone(d.claims, C),
       clauses |-> d.clauses \ gone(d.clauses, L),
       passages |-> d.passages \ gone(d.passages, G),
       alignments |-> d.alignments \ gone(d.alignments, A),
       novelty_scores |-> d.novelty_scores \ gone(d.novelty_scores, N)]

\* INSERT INTO table: refused unless the primary key, the foreign keys and
\* the unique constraints admit the row.
Insert(table, row) ==
  /\ RowCount(db) < MaxRows
  /\ PrimaryKeyFree(db, table, row)
  /\ ReferencesExist(db, table, row)
  /\ UniqueFree(db, table, row)
  /\ db' = [db EXCEPT ![table] = @ \cup {row}]
  /\ last' = Served("INSERT", 0, "", "", NoConfig)
  /\ UNCHANGED <<patents, clauses, events, auditLog, comparison, novelty,
                 selectedPatent>>
  /\ UNCHANGED rest
  /\ UNCHANGED <<query, searchParams, localStorage, location, sent, schema,
                 migration>>

\* DELETE FROM table WHERE id = ...
Delete(table, id) ==
  /\ id \in Ids(db[table])
  /\ db' = OnDeleteCascade(db, table, {id})
  /\ last' = Served("DELETE", 0, "", "", NoConfig)
  /\ UNCHANGED <<patents, clauses, events, auditLog, comparison, novelty,
                 selectedPatent>>
  /\ UNCHANGED rest
  /\ UNCHANGED <<query, searchParams, localStorage, location, sent, schema,
                 migration>>

insertRow == \E table \in Tables : \E row \in Rows(table) : Insert(table, row)

deleteRow == \E table \in Tables : \E id \in Uuids : Delete(table, id)

NextRows ==
  \/ insertRow
  \/ deleteRow

SpecRows == Init /\ [][NextRows]_vars

\* ---------------------------------------------------------------- claims

Range(f) == {f[i] : i \in DOMAIN f}

SetMax(S) == CHOOSE x \in S : \A y \in S : y <= x

Clip(x) == IF x < 0 THEN 0 ELSE IF x > 100 THEN 100 ELSE x

\* The most recent request was a compare (a novelty) that succeeded.
CompareReturned == last.op = "compare" /\ last.status = 201
NoveltyReturned == last.op = "novelty" /\ last.status = 201

\* The stored comparison is one of the claim the stored novelty is about.
SameClaim ==
  /\ comparison.status = "completed"
  /\ novelty.status = "completed"
  /\ comparison.patent_id = novelty.patent_id
  /\ comparison.claim_num = novelty.claim_num

\* The reference is a stored patent published after the target's priority date.
Postdates(ref_id, target_id) ==
  /\ ref_id \in 1..Len(patents)
  /\ target_id \in 1..Len(patents)
  /\ patents[ref_id].pub_date > patents[target_id].prio_date

\* C1: every similarity score of every alignment compare returns lies in
\* [0,1], whatever the length of the reference list.
C1_ScoresInUnitInterval ==
  comparison.status = "completed" =>
    \A a \in Range(comparison.alignments) : a.similarity_score \in 0..100

\* C2: no alignment compare returns references a document (other than the
\* target itself) published after the priority date of the target patent.
C2_PriorityDateInvariant ==
  comparison.status = "completed" =>
    \A a \in Range(comparison.alignments) :
      a.reference_patent_id # comparison.patent_id =>
        ~Postdates(a.reference_patent_id, comparison.patent_id)

\* C3: every alignment carries a label out of overlap, paraphrase, gap,
\* ambiguous.
C3_LabelPartition ==
  comparison.status = "completed" =>
    \A a \in Range(comparison.alignments) :
      a.alignment_type \in {"overlap", "paraphrase", "gap", "ambiguous"}

\* The highest similarity among the alignments of clause i in the stored
\* comparison, 0 when the clause has none.
MaxSimilarity(i) ==
  LET S == {a.similarity_score : a \in {b \in Range(comparison.alignments) :
                                           b.clause_index = i}}
  IN IF S = {} THEN 0 ELSE SetMax(S)

\* C4: the clause novelty the novelty operation reports is 1 minus the
\* maximum similarity among the alignments of that clause, clipped to [0,1].
C4_ClauseNoveltyIsComplement ==
  (NoveltyReturned /\ SameClaim) =>
    \A d \in Range(novelty.clause_details) :
      d.novelty_score = Clip(100 - MaxSimilarity(d.clause_index))

InUnit(x) == x \in 0..100

ResultInBounds(r) ==
  /\ InUnit(r.novelty_score)
  /\ InUnit(r.obviousness_score)
  /\ \A d \in Range(r.clause_details) : InUnit(d.novelty_score)

\* C5: the claim-level novelty, the obviousness and every clause novelty of
\* every novelty result (returned by the API or shown by the novelty card)
\* lie in [0,1].
C5_NoveltyBounds ==
  /\ novelty.status = "completed" => ResultInBounds(novelty)
  /\ selectedPatent # 0 => ResultInBounds(NoveltyCard_mockNovelty)

C5_Witness ==
  /\ NoveltyReturned
  /\ Len(novelty.clause_details) > 0
  /\ selectedPatent # 0

HasDiscrepancyFlag(r) == "discrepancy" \in DOMAIN r

\* C6: for every novelty result and every slack >= 0,
\* obviousness <= (1 - novelty) + slack, unless the result carries a
\* discrepancy flag.
C6_ObviousnessConsistency ==
  novelty.status = "completed" =>
    \A slack \in 0..MaxSlack :
      \/ novelty.obviousness_score <= (100 - novelty.novelty_score) + slack
      \/ HasDiscrepancyFlag(novelty)

C6_Witness ==
  /\ NoveltyReturned
  /\ ~HasDiscrepancyFlag(novelty)
  /\ novelty.obviousness_score = 100 - novelty.novelty_score

ClauseCount(r) == clauses[<<r.patent_id, r.claim_num>>]

IsPartial(r) == "partial" \in DOMAIN r \/ r.status = "partial"

\* C7: the clause_details of a novelty result hold exactly one entry for each
\* clause 0..n-1 of the claim, or the result is marked partial.
C7_NoClauseDropped ==
  (NoveltyReturned /\ ClauseCount(novelty) > 0) =>
    \/ IsPartial(novelty)
    \/ /\ Len(novelty.clause_details) = ClauseCount(novelty)
       /\ \A i \in 0..(ClauseCount(novelty) - 1) :
            Cardinality({k \in DOMAIN novelty.clause_details :
                           novelty.clause_details[k].clause_index = i}) = 1

\* The claim of the stored novelty result has no qualifying reference: it
\* was never compared, or every reference it was compared with postdates
\* its priority date (an empty reference list included).
NoQualifyingReference ==
  \/ comparison = NoResponse
  \/ /\ SameClaim
     /\ \A a \in Range(comparison.alignments) :
          Postdates(a.reference_patent_id, comparison.patent_id)

\* C8: with no qualifying reference the novelty operation returns clause
\* novelty 1 and confidence low for each clause.
C8_InsufficientEvidence ==
  (NoveltyReturned /\ NoQualifyingReference) =>
    /\ novelty.confidence_band = "low"
    /\ \A d \in Range(novelty.clause_details) :
         d.novelty_score = 100 /\ d.confidence = "low"

\* C9: every clause of the compared claim without a surviving alignment has
\* a 'gap' entry in the compare result.
C9_GapForUnalignedClause ==
  CompareReturned =>
    \A i \in 0..(ClauseCount(comparison) - 1) :
      LET entries == {a \in Range(comparison.alignments) : a.clause_index = i}
      IN (\A a \in entries : a.alignment_type = "gap") =>
           (\E a \in entries : a.alignment_type = "gap")

\* Two successive successful novelty calls for the same patent and claim.
RepeatedNovelty ==
  /\ novelty.status = "completed"
  /\ novelty'.status = "completed"
  /\ novelty'.patent_id = novelty.patent_id
  /\ novelty'.claim_num = novelty.claim_num

WithoutId(r) == [r EXCEPT !.novelty_id = 0]

RefsOf(c) == [i \in DOMAIN c.alignments |-> c.alignments[i].reference_patent_id]

Occurrences(seq, x) == Cardinality({i \in DOMAIN seq : seq[i] = x})

\* Two successive compare results for the same patent and claim whose
\* reference lists hold the same references, each as often, in any order.
SameCompareInputs ==
  /\ comparison.status = "completed"
  /\ comparison'.status = "completed"
  /\ comparison'.patent_id = comparison.patent_id
  /\ comparison'.claim_num = comparison.claim_num
  /\ Len(comparison'.alignments) = Len(comparison.alignments)
  /\ \A r \in PatentIds :
       Occurrences(RefsOf(comparison'), r) = Occurrences(RefsOf(comparison), r)

\* The scores and labels a compare result gives to a reference.
Verdicts(c, ref) ==
  {<<a.similarity_score, a.alignment_type>> :
     a \in {b \in Range(c.alignments) : b.reference_patent_id = ref}}

\* C11: two compare runs on the same patent, claim and set of references give
\* every reference the same score and label, whatever its position in refs.
C11_PositionIndependentScores ==
  [][SameCompareInputs =>
       \A ref \in PatentIds :
         Verdicts(comparison', ref) = Verdicts(comparison, ref)]_vars

\* C12: whenever a novelty result and an alignment set of the same claim are
\* both current, whichever came last, the novelty result is the one computed
\* from that alignment set (clause novelty 1 - max similarity).
C12_NoveltyTracksAlignments ==
  SameClaim =>
    \A d \in Range(novelty.clause_details) :
      d.novelty_score = Clip(100 - MaxSimilarity(d.clause_index))

\* A compare of the patent's claim is in the audit log before position n.
ComparedBefore(patent_id, claim_nums, n) ==
  \E i \in 1..(n - 1) :
    /\ auditLog[i].action = "patent_compare"
    /\ auditLog[i].patent_id = patent_id
    /\ auditLog[i].claim_num \in claim_nums

\* C13: a novelty score is returned by the API, or shown by the novelty card
\* for the selected patent, only after a compare of that claim.
C13_ScoringGuard ==
  /\ NoveltyReturned =>
       ComparedBefore(novelty.patent_id, {novelty.claim_num}, Len(auditLog))
  /\ selectedPatent # 0 =>
       ComparedBefore(selectedPatent, ClaimNums, Len(auditLog) + 1)

HasNumericConfidence(r) ==
  "confidence" \in DOMAIN r \/ "confidence_score" \in DOMAIN r

\* C16: every novelty result carries the confidence band together with the
\* numeric confidence score.
C16_BandAndScoreTogether ==
  novelty.status = "completed" =>
    /\ "confidence_band" \in DOMAIN novelty
    /\ novelty.confidence_band \in {"high", "medium", "low"}
    /\ HasNumericConfidence(novelty)

SetMin(S) == CHOOSE x \in S : \A y \in S : x <= y

ClauseNovelties(r) == {d.novelty_score : d \in Range(r.clause_details)}

RECURSIVE WeightedSum(_, _, _)
WeightedSum(w, details, n) ==
  IF n = 0 THEN 0
  ELSE w[n] * details[n].novelty_score + WeightedSum(w, details, n - 1)

RECURSIVE Total(_, _)
Total(w, n) == IF n = 0 THEN 0 ELSE w[n] + Total(w, n - 1)

\* The claim-level novelty of r is a weighted sum of its clause novelties
\* with weights w[i]/N, w[i] >= 0, that sum to 1, for some N <= MaxWeightSum.
IsWeightedSum(r) ==
  LET n == Len(r.clause_details) IN
  \E N \in 1..MaxWeightSum :
    \E w \in [1..n -> 0..N] :
      /\ Total(w, n) = N
      /\ WeightedSum(w, r.clause_details, n) = N * r.novelty_score

BetweenClauses(r) ==
  /\ InUnit(r.novelty_score)
  /\ SetMin(ClauseNovelties(r)) <= r.novelty_score
  /\ r.novelty_score <= SetMax(ClauseNovelties(r))

\* C17: the claim-level novelty is a weighted sum of the clause novelties of
\* the same result with non-negative weights that sum to 1; it lies in [0,1]
\* and between the least and the greatest clause novelty.
C17_WeightedAggregate ==
  /\ novelty.status = "completed" =>
       IsWeightedSum(novelty) /\ BetweenClauses(novelty)
  /\ selectedPatent # 0 =>
       IsWeightedSum(NoveltyCard_mockNovelty) /\ BetweenClauses(NoveltyCard_mockNovelty)

C17_Witness ==
  /\ NoveltyReturned
  /\ selectedPatent # 0
  /\ SetMin(ClauseNovelties(novelty)) < novelty.novelty_score
  /\ novelty.novelty_score < SetMax(ClauseNovelties(novelty))

\* The alignments are in non-increasing score order, equal scores in the
\* order of the reference ids.
MergedOrder(c) ==
  \A i, j \in DOMAIN c.alignments :
    i < j =>
      /\ c.alignments[i].similarity_score >= c.alignments[j].similarity_score
      /\ c.alignments[i].similarity_score = c.alignments[j].similarity_score =>
           c.alignments[i].reference_patent_id <= c.alignments[j].reference_patent_id

\* C18: compare returns the alignments ordered by (score, document id), an
\* order that does not depend on the order the references were supplied in.
C18_MergeOrder ==
  [][/\ comparison'.status = "completed" => MergedOrder(comparison')
     /\ SameCompareInputs => RefsOf(comparison') = RefsOf(comparison)]_vars

\* The labels from the weakest to the strongest match.
LabelStrength(label) ==
  CASE label \in {"gap", "low_similarity"} -> 0
    [] label \in {"ambiguous", "medium_similarity"} -> 1
    [] label \in {"paraphrase", "high_similarity"} -> 2
    [] label \in {"overlap", "exact_match"} -> 3

IsMember(user_id, workspace_id) == <<user_id, workspace_id>> \in Memberships

\* C14: a request is served (status 200 or 201), and the rows it writes are
\* written, only for a workspace the authenticated user is a member of.
C14_WorkspaceIsolation ==
  /\ last.status \in {200, 201} => IsMember(last.user_id, last.workspace_id)
  /\ \A i \in DOMAIN auditLog :
       IsMember(auditLog[i].user_id, auditLog[i].workspace_id)

\* The audit action of each audited handler.
AuditAction(op) ==
  CASE op = "ingest" -> "patent_ingest"
    [] op = "search" -> "patent_search"
    [] op = "compare" -> "patent_compare"
    [] op = "novelty" -> "patent_novelty"
    [] op = "chart" -> "chart_generate"
    [] op = "export" -> "export_bundle"

\* C15: every request that succeeds (each step is one request) appends
\* exactly one audit_log entry, with the request's user and workspace and the
\* action of its handler, in the step that produces the response.
C15_AuditCompleteness ==
  [][last'.status = 201 =>
       /\ Len(auditLog') = Len(auditLog) + 1
       /\ auditLog' = Append(auditLog, auditLog'[Len(auditLog')])
       /\ auditLog'[Len(auditLog')].user_id = last'.user_id
       /\ auditLog'[Len(auditLog')].workspace_id = last'.workspace_id
       /\ auditLog'[Len(auditLog')].action = AuditAction(last'.op)]_vars

C15_Witness ==
  /\ last.op = "export"
  /\ last.status = 201
  /\ auditLog[Len(auditLog)].action = "export_bundle"
  /\ \E i \in DOMAIN auditLog : auditLog[i].action = "patent_search"
  /\ \E i \in DOMAIN auditLog : auditLog[i].action = "patent_ingest"

ValidConfig(config) ==
  /\ config.high_threshold \in 0..100
  /\ config.weight \in 0..100

\* C20: a novelty request whose thresholds or weights are outside [0,1] is
\* rejected (it is not answered with status 201) and leaves patents, clauses,
\* events, audit log and novelty result as they were.
C20_ConfigurationFailsFast ==
  [][(last'.op = "novelty" /\ last'.config # NoConfig
        /\ ~ValidConfig(last'.config)) =>
       /\ last'.status # 201
       /\ UNCHANGED <<patents, clauses, events, auditLog, novelty>>]_vars

\* ------------------------------------------------------ claims C21 to C30

\* C22: a compare, novelty, chart or export request fails only for a patent
\* that is not in the workspace, and a search only for a missing workspace
\* header; the response then carries the status the handler raised (404,
\* 400 for search), never 500.
C22_ErrorStatusPreserved ==
  /\ last.op \in {"compare", "novelty", "chart", "export"} =>
       last.status \in {201, 404}
  /\ last.op = "search" => last.status \in {201, 400}

\* C23: an ingest request that ends in an error leaves no patent row and no
\* ingest event behind; one answered 'processing' (201) has added the patent
\* row, the event and the audit entry.
C23_IngestAtomic ==
  [][last'.op = "ingest" =>
       IF last'.status = 201
       THEN /\ Len(patents') = Len(patents) + 1
            /\ Len(events') = Len(events) + 1
            /\ Len(auditLog') = Len(auditLog) + 1
       ELSE /\ patents' = patents
            /\ events' = events]_vars

\* C21: a novelty invocation its caller cancelled produces no result (it is
\* not answered 201 'completed') and leaves novelty result, events and
\* audit log as they were.
C21_CancelledReturnsNothing ==
  [][(last'.op = "novelty" /\ last'.config = Aborted) =>
       /\ last'.status # 201
       /\ UNCHANGED <<novelty, events, auditLog>>]_vars

\* C24: submitting the search form leaves the search type selected in the
\* Search Type control as it was.
C24_SubmitKeepsSearchType ==
  [][last'.op = "handleSearch" =>
       searchParams'.search_type = searchParams.search_type]_vars

\* A response with this status arrives in the step.
Received(status) ==
  /\ sent.pending
  /\ ~sent'.pending
  /\ sent'.status = status

\* C29: the stored token is removed and the browser goes to /login exactly
\* in a step that receives a 401; no other step changes the stored token or
\* workspace id; a request sent while a token is stored carries it.
C29_LogoutExactlyOn401 ==
  [][/\ Received(401) =>
          localStorage'.auth_token = "" /\ location' = "/login"
     /\ ~Received(401) => UNCHANGED <<localStorage, location>>
     /\ localStorage'.workspace_id = localStorage.workspace_id
     /\ (sent' # sent /\ sent'.pending /\ localStorage.auth_token # "") =>
          sent'.headers.Authorization =
            [scheme |-> "Bearer", token |-> localStorage.auth_token]]_vars

C29_Witness ==
  /\ sent.sent
  /\ sent.status = 401
  /\ sent.headers.Authorization.token = "t1"
  /\ sent.headers.x_workspace_id = "w1"
  /\ localStorage = [auth_token |-> "", workspace_id |-> "w1"]
  /\ location = "/login"

\* C25: a search answered 201 returns at most k results (k as the audit
\* entry of the request records it), total is their number, and the scores
\* fall strictly with the rank and lie in [0,1].
C25_SearchResultsBounded ==
  (last.op = "search" /\ last.status = 201) =>
    /\ Len(search.results) <= auditLog[Len(auditLog)].k
    /\ search.total = Len(search.results)
    /\ \A i, j \in DOMAIN search.results :
         i < j => search.results[i].score > search.results[j].score
    /\ \A i \in DOMAIN search.results : search.results[i].score \in 0..100

\* Every patent id of the export request is a row of the request's workspace.
AllValidated(request) ==
  \A i \in DOMAIN request.patent_ids :
    findOne(request.patent_ids[i], request.workspace_id)

\* C26: an export request that lists a patent id not in the workspace fails
\* and publishes no event, writes no audit entry and returns no bundle; an
\* export event is published only when every listed patent was validated.
C26_ExportAllOrNothing ==
  [][last'.op = "export" =>
       /\ ~AllValidated(exportRequest') =>
            /\ last'.status # 201
            /\ UNCHANGED <<events, auditLog, bundle>>
       /\ events' # events => AllValidated(exportRequest')]_vars

C26_Witness ==
  /\ last.op = "export"
  /\ last.status = 500
  /\ Len(exportRequest.patent_ids) = MaxExport
  /\ findOne(exportRequest.patent_ids[1], exportRequest.workspace_id)
  /\ ~findOne(exportRequest.patent_ids[MaxExport], exportRequest.workspace_id)
  /\ events # << >>

ReadOps == {"getPatents", "getPatent", "getPatentClaims", "getPatentPassages"}

\* C30: a request to a read endpoint, answered or refused, leaves patents,
\* clauses, search sessions, audit log and published events as they were.
C30_ReadsLeaveStateUnchanged ==
  [][last'.op \in ReadOps =>
       UNCHANGED <<patents, clauses, searchSessions, auditLog, events>>]_vars

C30_Witness ==
  /\ last.op = "getPatent"
  /\ last.status = 200
  /\ Len(patents) = MaxPatents
  /\ Len(auditLog) = MaxPatents
  /\ Len(events) = MaxPatents

\* C27: whatever rows are inserted and deleted, every alignment references
\* an existing clause and an existing passage, every clause an existing
\* claim, every claim and passage an existing patent, no claim has two
\* novelty_scores rows and no (clause, passage) pair has two alignments.
C27_ReferentialIntegrity ==
  /\ \A r \in db.alignments :
       /\ r.clause_id \in Ids(db.clauses)
       /\ r.passage_id \in Ids(db.passages)
  /\ \A r \in db.clauses : r.claim_id \in Ids(db.claims)
  /\ \A r \in db.claims : r.patent_id \in Ids(db.patents)
  /\ \A r \in db.passages : r.patent_id \in Ids(db.patents)
  /\ \A r, o \in db.novelty_scores : r.claim_id = o.claim_id => r = o
  /\ \A r, o \in db.alignments :
       (r.clause_id = o.clause_id /\ r.passage_id = o.passage_id) => r = o

\* After a delete one workspace is left, and with it a patent, a claim and
\* the claim's novelty score.
C27_Witness ==
  /\ last.op = "DELETE"
  /\ Cardinality(db.workspaces) = 1
  /\ db.patents # {}
  /\ db.claims # {}
  /\ db.novelty_scores # {}

\* C28: once down() has run after up(), the schema is what it was before
\* up(): nothing that up() created is left, and no statement of down() was
\* refused for dropping an object that another object still depends on.
C28_MigrationRoundTrip ==
  /\ migration.method = "reverted" =>
       /\ schema = migration.before
       /\ \A i \in DOMAIN up : up[i].name \notin schema
  /\ migration.method # "down failed"

====
